---- MODULE Spec2Model ----
(***************************************************************************)
(* The WHIP ingestion plugin (src/main.py): the rendezvous between an HTTP *)
(* POST carrying an SDP offer (WHIPDevice.onRequest) and a host signaling  *)
(* session (WHIPDevice.startRTCSignalingSession) through the per-device    *)
(* asyncio.Queue of offer futures, pending_webrtc.                         *)
(*                                                                         *)
(* asyncio is cooperative: the code between two awaits runs as one step.   *)
(* Each action below is one such step of one coroutine.  The two           *)
(* asyncio.wait_for timeouts are not clocked: a timeout may fire whenever  *)
(* the awaited future is still pending.                                    *)
(***************************************************************************)
EXTENDS Integers, Sequences, FiniteSets, TLC

\* The number of calls the host makes into the plugin that construct
\* something: a getDevice that constructs a WHIPDevice, a
\* startRTCSignalingSession, an onRequest.
MaxCalls == 4

Sessions == 1..(MaxCalls - 1)
Requests == 1..(MaxCalls - 1)
Instances == 1..MaxCalls
\* One asyncio.Future per startRTCSignalingSession call.
Futures == Sessions
NativeIds == {"cam1", "cam2"}

\* Python's None, for references to devices, futures and requests.
None == 0

----------------------------------------------------------------------------
(* Request bodies.  request["body"] is a string; kind says what it is:     *)
(* "empty" (absent or ""), "{}" (the literal), "notjson" (json.loads       *)
(* raises), "nodata" (a JSON object without a data key, or data not a list *)
(* of ints) and "data" (a JSON object whose data is the list of bytes).    *)
EmptyBody == [kind |-> "empty", data |-> <<>>]
EmptyObject == [kind |-> "{}", data |-> <<>>]
NotJson == [kind |-> "notjson", data |-> <<>>]
NoData == [kind |-> "nodata", data |-> <<>>]
JsonData(bytes) == [kind |-> "data", data |-> bytes]

\* The bodies requests are drawn from: o=1, o=2, empty data, a byte that is
\* no UTF-8 (0xFF), a two-byte UTF-8 character (U+00E9).
Bodies ==
  { EmptyBody, EmptyObject, NotJson, NoData,
    JsonData(<<>>), JsonData(<<111, 61, 49>>), JsonData(<<111, 61, 50>>),
    JsonData(<<255>>), JsonData(<<195, 169>>) }

\* bytes.decode("utf-8") on one- and two-byte sequences: whether it raises
\* UnicodeDecodeError, and the code points it yields.  (The bodies above hold
\* no lead byte of a three- or four-byte sequence.)
RECURSIVE Utf8Valid(_)
Utf8Valid(b) ==
  IF b = <<>> THEN TRUE
  ELSE IF b[1] < 128 THEN Utf8Valid(Tail(b))
  ELSE IF b[1] \in 194..223 /\ Len(b) >= 2 /\ b[2] \in 128..191
       THEN Utf8Valid(Tail(Tail(b)))
  ELSE FALSE

RECURSIVE Utf8Decode(_)
Utf8Decode(b) ==
  IF b = <<>> THEN <<>>
  ELSE IF b[1] < 128 THEN <<b[1]>> \o Utf8Decode(Tail(b))
  ELSE <<(b[1] - 192) * 64 + (b[2] - 128)>> \o Utf8Decode(Tail(Tail(b)))

\* The check of line 153 without its second half.
IsNoop_empty_only(body) == body.kind = "empty"

\* Line 153: the request is ignored.
IsNoop(body) == body.kind = "empty" \/ body.kind = "{}"

\* A parse that maps every failure to an empty SDP instead of raising.
ParseBody_lenient(body) ==
  IF body.kind # "data" \/ ~Utf8Valid(body.data) THEN [raised |-> FALSE, sdp |-> <<>>]
  ELSE [raised |-> FALSE, sdp |-> Utf8Decode(body.data)]

\* Lines 158-159: json.loads, bytearray(body.get("data", "")), decode.
\* json.loads raises on text that is no JSON; bytearray("") raises TypeError
\* when data is missing; decode raises on bytes that are no UTF-8.
ParseBody(body) ==
  IF body.kind = "notjson" THEN [raised |-> TRUE, sdp |-> <<>>]
  ELSE IF body.kind # "data" THEN [raised |-> TRUE, sdp |-> <<>>]
  ELSE IF ~Utf8Valid(body.data) THEN [raised |-> TRUE, sdp |-> <<>>]
  ELSE [raised |-> FALSE, sdp |-> Utf8Decode(body.data)]

\* The responses onRequest sends.
Response(code, text) == [code |-> code, body |-> text]
NoSdpProvided_500 == Response(500, "No SDP provided")
NoSdpProvided == Response(400, "No SDP provided")
NoPendingConnection_404 == Response(404, "No pending connection")
NoPendingConnection == Response(503, "No pending connection")
Created(answer) == Response(201, answer)
AnswerTimeout == Response(504, "Timeout waiting for answer")
InternalError == Response(500, "Error processing request")

----------------------------------------------------------------------------
(* asyncio.Future: pending, holding a result, or cancelled.  "absent" is a *)
(* future not constructed yet.                                             *)
NoOffer == [offer |-> <<>>, answer_fut |-> None]
NoAnswer == ""
NewFuture(novalue) == [state |-> "pending", value |-> novalue]
AbsentFuture(novalue) == [state |-> "absent", value |-> novalue]

\* Future.done()
done(f) == f.state = "result" \/ f.state = "cancelled"

\* set_result without the check of the future's state.
set_result_unchecked(f, v) == [raised |-> FALSE, fut |-> [state |-> "result", value |-> v]]

\* Future.set_result: raises InvalidStateError on a future that is done.
set_result(f, v) ==
  IF done(f) THEN [raised |-> TRUE, fut |-> f]
  ELSE [raised |-> FALSE, fut |-> [state |-> "result", value |-> v]]

\* A wait that leaves the future as it is (asyncio.wait, asyncio.shield).
wait_for_no_cancel(f) == f

\* asyncio.wait_for on a future, when the timeout fires or the waiting task is
\* cancelled: the future is cancelled.
wait_for_cancel(f) == [f EXCEPT !.state = "cancelled"]

\* The host session's descriptions: createLocalDescription("answer") returns
\* one of these.
DescTypes == {"answer", "offer"}
AnswerSdps == {"a1", "a2"}
HostDescriptions == [type : DescTypes, sdp : AnswerSdps]
NoDescription == [type |-> "", sdp |-> ""]
NoCameraOffer == [type |-> "", sdp |-> <<>>]

\* WHIPSession.createLocalDescription: the camera's offer, from the offer text.
WHIPSession_createLocalDescription(offer, type) ==
  IF type # "offer" THEN [raised |-> TRUE, desc |-> NoCameraOffer]
  ELSE [raised |-> FALSE, desc |-> [sdp |-> offer, type |-> "offer"]]

\* setRemoteDescription without the check of the description's type.
setRemoteDescription_any_type(resolve_answer, description) ==
  LET r == set_result(resolve_answer, description.sdp)
  IN  [raised |-> r.raised,
       error |-> IF r.raised THEN "InvalidStateError" ELSE "",
       fut |-> r.fut]

\* setRemoteDescription resolving the answer with the wrong field.
setRemoteDescription_wrong_field(resolve_answer, description) ==
  IF description.type # "answer"
  THEN [raised |-> TRUE, error |-> "Exception", fut |-> resolve_answer]
  ELSE LET r == set_result(resolve_answer, description.type)
       IN  [raised |-> r.raised,
            error |-> IF r.raised THEN "InvalidStateError" ELSE "",
            fut |-> r.fut]

\* WHIPSession.setRemoteDescription: accepts answers only, and resolves the
\* answer future with the description's sdp.
WHIPSession_setRemoteDescription(resolve_answer, description) ==
  IF description.type # "answer"
  THEN [raised |-> TRUE, error |-> "Exception", fut |-> resolve_answer]
  ELSE LET r == set_result(resolve_answer, description.sdp)
       IN  [raised |-> r.raised,
            error |-> IF r.raised THEN "InvalidStateError" ELSE "",
            fut |-> r.fut]

----------------------------------------------------------------------------
VARIABLES
  devices,         \* WHIPPlugin.devices: nativeId -> WHIPDevice (or None)
  created,         \* the number of WHIPDevice objects constructed so far
  pending_webrtc,  \* WHIPDevice.pending_webrtc, per device: a queue of futures
  offer_fut,       \* the offer futures, by identity
  answer_fut,      \* the answer future of each onRequest call
  sess,            \* each startRTCSignalingSession call: position and locals
  req              \* each onRequest call: position, locals, responses sent

vars == <<devices, created, pending_webrtc, offer_fut, answer_fut, sess, req>>

IdleSession ==
  [pc |-> "idle", dev |-> None, offer_fut |-> None, offer |-> <<>>,
   answer_fut |-> None, camera_offer |-> NoCameraOffer,
   scrypted_offer |-> NoDescription, error |-> ""]

IdleRequest ==
  [pc |-> "idle", dev |-> None, body |-> EmptyBody, sdp |-> <<>>,
   offer_fut |-> None, stale |-> FALSE, responses |-> <<>>]

Init ==
  /\ devices = [n \in NativeIds |-> None]
  /\ created = 0
  /\ pending_webrtc = [d \in Instances |-> <<>>]
  /\ offer_fut = [f \in Futures |-> AbsentFuture(NoOffer)]
  /\ answer_fut = [r \in Requests |-> AbsentFuture(NoAnswer)]
  /\ sess = [s \in Sessions |-> IdleSession]
  /\ req = [r \in Requests |-> IdleRequest]

----------------------------------------------------------------------------
(* WHIPPlugin                                                              *)

\* The calls made so far, of those MaxCalls bounds.
Calls ==
  created + Cardinality({s \in Sessions : sess[s].pc # "idle"})
          + Cardinality({r \in Requests : req[r].pc # "idle"})

\* getDevice without the test of line 221: every call constructs a device.
getDevice_always_constructs(n) ==
  /\ Calls < MaxCalls
  /\ created' = created + 1
  /\ devices' = [devices EXCEPT ![n] = created + 1]
  /\ pending_webrtc' = [pending_webrtc EXCEPT ![created + 1] = <<>>]
  /\ UNCHANGED <<offer_fut, answer_fut, sess, req>>

\* getDevice: the device is constructed, with an empty queue, on first access.
getDevice(n) ==
  /\ devices[n] = None => Calls < MaxCalls
  /\ IF devices[n] = None
     THEN /\ created' = created + 1
          /\ devices' = [devices EXCEPT ![n] = created + 1]
          /\ pending_webrtc' = [pending_webrtc EXCEPT ![created + 1] = <<>>]
     ELSE UNCHANGED <<created, devices, pending_webrtc>>
  /\ UNCHANGED <<offer_fut, answer_fut, sess, req>>

releaseDevice(n) ==
  /\ devices' = [devices EXCEPT ![n] = None]
  /\ UNCHANGED <<created, pending_webrtc, offer_fut, answer_fut, sess, req>>

----------------------------------------------------------------------------
(* WHIPDevice.startRTCSignalingSession                                     *)

\* Calls are numbered in the order they are made.
NextSession(s) == Calls < MaxCalls /\ sess[s].pc = "idle" /\ \A t \in Sessions : t < s => sess[t].pc # "idle"
NextRequest(r) == Calls < MaxCalls /\ req[r].pc = "idle" /\ \A t \in Requests : t < r => req[t].pc # "idle"

\* One future made once and shared by every call.
SharedFuture(s) == 1

\* The future a call constructs (line 108): a fresh one.
FreshFuture(s) == s

\* Lines 108-112: construct the offer future, enqueue it, wait for it.
StartSession(s, n) ==
  /\ NextSession(s)
  /\ devices[n] # None
  /\ LET d == devices[n]
         f == FreshFuture(s)
     IN  /\ offer_fut' = [offer_fut EXCEPT ![f] = NewFuture(NoOffer)]
         /\ pending_webrtc' = [pending_webrtc EXCEPT ![d] = Append(@, f)]
         /\ sess' = [sess EXCEPT ![s] = [@ EXCEPT !.pc = "waitOffer", !.dev = d,
                                                   !.offer_fut = f]]
  /\ UNCHANGED <<devices, created, answer_fut, req>>

\* A wait for the offer without a timeout.
OfferTimeout_never(s) == FALSE /\ UNCHANGED vars

\* Lines 112-115: the 60 s wait expires; wait_for cancels the future and
\* TimeoutError is raised to the caller.
OfferTimeout(s) ==
  /\ sess[s].pc = "waitOffer"
  /\ offer_fut[sess[s].offer_fut].state = "pending"
  /\ offer_fut' = [offer_fut EXCEPT ![sess[s].offer_fut] = wait_for_cancel(@)]
  /\ sess' = [sess EXCEPT ![s] = [@ EXCEPT !.pc = "failed", !.error = "TimeoutError"]]
  /\ UNCHANGED <<devices, created, pending_webrtc, answer_fut, req>>

\* Lines 116-118, and a cancellation inside a host call: the task running
\* the session is cancelled from outside; CancelledError is raised.
CancelSession(s) ==
  /\ \/ /\ sess[s].pc = "waitOffer"
        /\ offer_fut[sess[s].offer_fut].state = "pending"
        /\ offer_fut' = [offer_fut EXCEPT ![sess[s].offer_fut] = wait_for_cancel(@)]
     \/ /\ sess[s].pc \in {"hostSetRemote", "hostCreateLocal"}
        /\ UNCHANGED offer_fut
  /\ sess' = [sess EXCEPT ![s] = [@ EXCEPT !.pc = "failed", !.error = "CancelledError"]]
  /\ UNCHANGED <<devices, created, pending_webrtc, answer_fut, req>>

\* An exchange that asks the host for its answer without first giving it the
\* camera's offer.
ReceiveOffer_skips_setRemote(s) ==
  /\ sess[s].pc = "waitOffer"
  /\ offer_fut[sess[s].offer_fut].state = "result"
  /\ LET v == offer_fut[sess[s].offer_fut].value
     IN  sess' = [sess EXCEPT ![s] = [@ EXCEPT !.pc = "hostCreateLocal", !.offer = v.offer,
                                                !.answer_fut = v.answer_fut]]
  /\ UNCHANGED <<devices, created, pending_webrtc, offer_fut, answer_fut, req>>

\* Lines 112, 120-142: the wait returns (offer, answer_fut); the camera
\* session makes its offer and the host's setRemoteDescription is called.
ReceiveOffer(s) ==
  /\ sess[s].pc = "waitOffer"
  /\ offer_fut[sess[s].offer_fut].state = "result"
  /\ LET v == offer_fut[sess[s].offer_fut].value
         c == WHIPSession_createLocalDescription(v.offer, "offer")
     IN  sess' = [sess EXCEPT ![s] =
                    IF c.raised
                    THEN [@ EXCEPT !.pc = "failed", !.offer = v.offer,
                                   !.answer_fut = v.answer_fut, !.error = "Exception"]
                    ELSE [@ EXCEPT !.pc = "hostSetRemote", !.offer = v.offer,
                                   !.answer_fut = v.answer_fut, !.camera_offer = c.desc]]
  /\ UNCHANGED <<devices, created, pending_webrtc, offer_fut, answer_fut, req>>

\* Line 142 returns; line 143 calls the host's createLocalDescription("answer").
HostSetRemoteReturns(s) ==
  /\ sess[s].pc = "hostSetRemote"
  /\ sess' = [sess EXCEPT ![s] = [@ EXCEPT !.pc = "hostCreateLocal"]]
  /\ UNCHANGED <<devices, created, pending_webrtc, offer_fut, answer_fut, req>>

\* An error handler that also replaces the device's queue by a new one.
HostRaises_resets_queue(s) ==
  /\ sess[s].pc \in {"hostSetRemote", "hostCreateLocal"}
  /\ sess' = [sess EXCEPT ![s] = [@ EXCEPT !.pc = "failed", !.error = "HostError"]]
  /\ pending_webrtc' = [pending_webrtc EXCEPT ![sess[s].dev] = <<>>]
  /\ UNCHANGED <<devices, created, offer_fut, answer_fut, req>>

\* Lines 142-143, 146-148: a host call raises; the error is re-raised.
HostRaises(s) ==
  /\ sess[s].pc \in {"hostSetRemote", "hostCreateLocal"}
  /\ sess' = [sess EXCEPT ![s] = [@ EXCEPT !.pc = "failed", !.error = "HostError"]]
  /\ UNCHANGED <<devices, created, pending_webrtc, offer_fut, answer_fut, req>>

\* Lines 143-150: the host returns its description; the camera session's
\* setRemoteDescription resolves the answer future, or raises.
HostCreateLocalReturns(s, desc) ==
  /\ sess[s].pc = "hostCreateLocal"
  /\ LET r == sess[s].answer_fut
         res == WHIPSession_setRemoteDescription(answer_fut[r], desc)
     IN  /\ answer_fut' = [answer_fut EXCEPT ![r] = res.fut]
         /\ sess' = [sess EXCEPT ![s] =
                       IF res.raised
                       THEN [@ EXCEPT !.pc = "failed", !.scrypted_offer = desc,
                                      !.error = res.error]
                       ELSE [@ EXCEPT !.pc = "complete", !.scrypted_offer = desc]]
  /\ UNCHANGED <<devices, created, pending_webrtc, offer_fut, req>>

----------------------------------------------------------------------------
(* WHIPDevice.onRequest                                                    *)

\* The drain on a LIFO queue: futures are popped from the tail.
RECURSIVE DrainLifo(_, _)
DrainLifo(q, last) ==
  IF q = <<>> THEN [offer_fut |-> last, queue |-> q]
  ELSE IF ~done(offer_fut[q[Len(q)]])
       THEN [offer_fut |-> q[Len(q)], queue |-> SubSeq(q, 1, Len(q) - 1)]
  ELSE DrainLifo(SubSeq(q, 1, Len(q) - 1), q[Len(q)])

\* The drain without its break: every future is popped.
RECURSIVE Drain_no_break(_, _)
Drain_no_break(q, last) ==
  IF q = <<>> THEN [offer_fut |-> last, queue |-> q]
  ELSE Drain_no_break(Tail(q), Head(q))

\* Lines 170-174: pop futures from the head of the queue until one is not
\* done or the queue is empty.  offer_fut keeps the last future popped, done
\* or not; it stays None only when nothing was popped.
RECURSIVE Drain(_, _)
Drain(q, last) ==
  IF q = <<>> THEN [offer_fut |-> last, queue |-> q]
  ELSE IF ~done(offer_fut[Head(q)]) THEN [offer_fut |-> Head(q), queue |-> Tail(q)]
  ELSE Drain(Tail(q), Head(q))

\* The request ends with this response (response.send, then return).
Respond(r, d, b, sdp, resp) ==
  [req[r] EXCEPT !.pc = "done", !.dev = d, !.body = b, !.sdp = sdp,
                 !.responses = Append(@, resp)]

\* Lines 152-183, up to the wait for the answer.
OnRequest(r, n, b) ==
  /\ NextRequest(r)
  /\ devices[n] # None
  /\ LET d == devices[n]
         p == ParseBody(b)
         c == Drain(pending_webrtc[d], None)
         v == [offer |-> p.sdp, answer_fut |-> r]
     IN  IF IsNoop(b)
         THEN /\ req' = [req EXCEPT ![r] = [@ EXCEPT !.pc = "done", !.dev = d, !.body = b]]
              /\ UNCHANGED <<pending_webrtc, offer_fut, answer_fut>>
         ELSE IF p.raised
         THEN /\ req' = [req EXCEPT ![r] = Respond(r, d, b, <<>>, InternalError)]
              /\ UNCHANGED <<pending_webrtc, offer_fut, answer_fut>>
         ELSE IF p.sdp = <<>>
         THEN /\ req' = [req EXCEPT ![r] = Respond(r, d, b, p.sdp, NoSdpProvided)]
              /\ UNCHANGED <<pending_webrtc, offer_fut, answer_fut>>
         ELSE IF pending_webrtc[d] = <<>>
         THEN /\ req' = [req EXCEPT ![r] = Respond(r, d, b, p.sdp, NoPendingConnection)]
              /\ UNCHANGED <<pending_webrtc, offer_fut, answer_fut>>
         ELSE IF c.offer_fut = None
         THEN /\ req' = [req EXCEPT ![r] = Respond(r, d, b, p.sdp, NoPendingConnection)]
              /\ pending_webrtc' = [pending_webrtc EXCEPT ![d] = c.queue]
              /\ UNCHANGED <<offer_fut, answer_fut>>
         ELSE LET res == set_result(offer_fut[c.offer_fut], v)
              IN  /\ pending_webrtc' = [pending_webrtc EXCEPT ![d] = c.queue]
                  /\ answer_fut' = [answer_fut EXCEPT ![r] = NewFuture(NoAnswer)]
                  /\ offer_fut' = [offer_fut EXCEPT ![c.offer_fut] = res.fut]
                  /\ req' = [req EXCEPT ![r] =
                        IF res.raised
                        THEN [Respond(r, d, b, p.sdp, InternalError)
                                EXCEPT !.offer_fut = c.offer_fut, !.stale = TRUE]
                        ELSE [@ EXCEPT !.pc = "waitAnswer", !.dev = d, !.body = b,
                                       !.sdp = p.sdp, !.offer_fut = c.offer_fut]]
  /\ UNCHANGED <<devices, created, sess>>

\* Lines 183-184: the answer future is resolved; respond 201 with it.
AnswerArrives(r) ==
  /\ req[r].pc = "waitAnswer"
  /\ answer_fut[r].state = "result"
  /\ req' = [req EXCEPT ![r] = [@ EXCEPT !.pc = "done",
                 !.responses = Append(@, Created(answer_fut[r].value))]]
  /\ UNCHANGED <<devices, created, pending_webrtc, offer_fut, answer_fut, sess>>

\* A wait for the answer without a timeout.
AnswerTimesOut_never(r) == FALSE /\ UNCHANGED vars

\* Lines 183, 185-187: the 1 s wait expires; wait_for cancels the answer
\* future; respond 504.
AnswerTimesOut(r) ==
  /\ req[r].pc = "waitAnswer"
  /\ answer_fut[r].state = "pending"
  /\ answer_fut' = [answer_fut EXCEPT ![r] = wait_for_cancel(@)]
  /\ req' = [req EXCEPT ![r] = [@ EXCEPT !.pc = "done",
                 !.responses = Append(@, AnswerTimeout)]]
  /\ UNCHANGED <<devices, created, pending_webrtc, offer_fut, sess>>

\* The task running the request is cancelled from outside while it waits:
\* CancelledError is no Exception, so no handler catches it and nothing is sent.
CancelRequest(r) ==
  /\ req[r].pc = "waitAnswer"
  /\ answer_fut[r].state = "pending"
  /\ answer_fut' = [answer_fut EXCEPT ![r] = wait_for_cancel(@)]
  /\ req' = [req EXCEPT ![r] = [@ EXCEPT !.pc = "cancelled"]]
  /\ UNCHANGED <<devices, created, pending_webrtc, offer_fut, sess>>

----------------------------------------------------------------------------
Next ==
  \/ \E n \in NativeIds : getDevice(n)
  \/ \E n \in NativeIds : releaseDevice(n)
  \/ \E s \in Sessions, n \in NativeIds : StartSession(s, n)
  \/ \E s \in Sessions : OfferTimeout(s)
  \/ \E s \in Sessions : CancelSession(s)
  \/ \E s \in Sessions : ReceiveOffer(s)
  \/ \E s \in Sessions : HostSetRemoteReturns(s)
  \/ \E s \in Sessions : HostRaises(s)
  \/ \E s \in Sessions, desc \in HostDescriptions : HostCreateLocalReturns(s, desc)
  \/ \E r \in Requests, n \in NativeIds, b \in Bodies : OnRequest(r, n, b)
  \/ \E r \in Requests : AnswerArrives(r)
  \/ \E r \in Requests : AnswerTimesOut(r)
  \/ \E r \in Requests : CancelRequest(r)

Spec == Init /\ [][Next]_vars

\* The event loop runs a coroutine whose awaited future is done and fires the
\* timers of the two wait_for calls; the host's calls return (they may also
\* raise, which needs no fairness).
Fairness ==
  /\ \A r \in Requests : WF_vars(AnswerArrives(r)) /\ WF_vars(AnswerTimesOut(r))
  /\ \A s \in Sessions :
        /\ WF_vars(OfferTimeout(s)) /\ WF_vars(ReceiveOffer(s))
        /\ WF_vars(HostSetRemoteReturns(s))
        /\ WF_vars(\E desc \in HostDescriptions : HostCreateLocalReturns(s, desc))

FairSpec == Spec /\ Fairness

----------------------------------------------------------------------------
(* Vocabulary of the properties.                                           *)

Min(a, b) == IF a <= b THEN a ELSE b

\* The text a request body posts, written out for the bodies above: "o=1",
\* "o=2" and U+00E9.
PostedText(body) ==
  IF body.data = <<111, 61, 49>> THEN <<111, 61, 49>>
  ELSE IF body.data = <<111, 61, 50>> THEN <<111, 61, 50>>
  ELSE IF body.data = <<195, 169>> THEN <<233>>
  ELSE <<>>

\* The sessions started on device d, and the requests handled by d that
\* carried a non-empty decoded SDP.
SessionsOn(d) == {s \in Sessions : sess[s].pc # "idle" /\ sess[s].dev = d}
OffersOn(d) == {r \in Requests : req[r].pc # "idle" /\ req[r].dev = d /\ req[r].sdp # <<>>}

\* Request r's offer was put into future f; session s was handed request r's
\* offer by its wait.
Fulfilled(f, r) == offer_fut[f].state = "result" /\ offer_fut[f].value.answer_fut = r
Received(s, r) == sess[s].pc # "idle" /\ sess[s].answer_fut = r
PairedWith(s, r) ==
  sess[s].pc # "idle" /\ (Fulfilled(sess[s].offer_fut, r) \/ Received(s, r))

\* Request r sent exactly this response.
Sent(r, code, text) == req[r].responses = <<[code |-> code, body |-> text]>>

\* C1: on every device at most min(N, M) pairings occur between the N offer
\* submissions and the M sessions; an offer reaches at most one session and a
\* session's slot is fulfilled by at most one request.
C1_AtMostOnePairing ==
  /\ \A d \in Instances :
        Cardinality({p \in SessionsOn(d) \X OffersOn(d) : PairedWith(p[1], p[2])})
          <= Min(Cardinality(OffersOn(d)), Cardinality(SessionsOn(d)))
  /\ \A r \in Requests : Cardinality({s \in Sessions : PairedWith(s, r)}) <= 1
  /\ \A s \in Sessions :
        Cardinality({r \in Requests : PairedWith(s, r)
                       \/ (sess[s].pc # "idle" /\ req[r].offer_fut = sess[s].offer_fut
                             /\ ~req[r].stale)}) <= 1

\* Two sessions wait on one device, one request is paired with one of them and
\* that session has received the offer.
C1_Witness ==
  \E d \in Instances, s \in Sessions, r \in Requests :
    /\ Cardinality(SessionsOn(d)) = 2
    /\ Cardinality(OffersOn(d)) = 1
    /\ s \in SessionsOn(d) /\ r \in OffersOn(d)
    /\ Fulfilled(sess[s].offer_fut, r) /\ Received(s, r)

\* C2: a POST with a non-empty SDP that finds a live slot waiting is paired
\* with a waiting session, which receives exactly the posted text; and when
\* the answer future is resolved before the answer wait expires, the response
\* is 201 with the sdp of the answer the host made for that session.
LiveSlotWaiting(d) ==
  \E i \in 1..Len(pending_webrtc[d]) : ~done(offer_fut[pending_webrtc[d][i]])

C2_LiveSlotGets201 ==
  /\ [](\A r \in Requests :
         /\ \A s \in Sessions : Received(s, r) =>
               /\ sess[s].offer = PostedText(req[r].body)
               /\ sess[s].pc # "failed" =>
                     sess[s].camera_offer = [sdp |-> PostedText(req[r].body), type |-> "offer"]
         /\ (req[r].pc = "done" /\ answer_fut[r].state = "result") =>
               \E s \in Sessions :
                 /\ Received(s, r)
                 /\ sess[s].pc = "complete"
                 /\ sess[s].scrypted_offer.type = "answer"
                 /\ Sent(r, 201, sess[s].scrypted_offer.sdp))
  /\ [][\A r \in Requests :
          (/\ req[r].pc = "idle" /\ req'[r].pc # "idle"
           /\ PostedText(req'[r].body) # <<>>
           /\ LiveSlotWaiting(req'[r].dev))
          => /\ req'[r].pc = "waitAnswer"
             /\ offer_fut[req'[r].offer_fut].state = "pending"
             /\ offer_fut'[req'[r].offer_fut] =
                  [state |-> "result",
                   value |-> [offer |-> PostedText(req'[r].body), answer_fut |-> r]]]_vars

\* A request that posted U+00E9 was answered 201 by a session that completed.
C2_Witness ==
  \E r \in Requests, s \in Sessions :
    /\ req[r].pc = "done" /\ req[r].body.data = <<195, 169>>
    /\ Received(s, r) /\ sess[s].pc = "complete" /\ sess[s].offer = <<233>>
    /\ Sent(r, 201, sess[s].scrypted_offer.sdp)

\* C3: a POST with a non-empty SDP that finds the queue non-empty with every
\* queued slot abandoned is answered 503, and the drain hands back no slot.
C3_AllAbandonedGives503 ==
  \A r \in Requests :
    (req[r].pc = "done" /\ req[r].stale) =>
      Sent(r, 503, "No pending connection")

\* C4: after a request's answer wait has timed out (504), the paired session's
\* setRemoteDescription with the host's answer raises nothing, so the session
\* does not fail because of it.
C4_LateAnswerIsNoop ==
  \A s \in Sessions, r \in Requests :
    (/\ Received(s, r)
     /\ Sent(r, 504, "Timeout waiting for answer")
     /\ sess[s].scrypted_offer.type = "answer")
    => sess[s].pc = "complete"

\* C5: a future that is done, whether it holds a value or was abandoned, is
\* never changed by a later step: every offer future and every answer future
\* is given a value at most once, and the value stays.
C5_ResolvedAtMostOnce ==
  [][/\ \A f \in Futures : done(offer_fut[f]) => offer_fut'[f] = offer_fut[f]
     /\ \A r \in Requests : done(answer_fut[r]) => answer_fut'[r] = answer_fut[r]]_vars

\* An offer future holds its value and a second resolution of the paired
\* answer future has been attempted, after the answer wait had given it up.
C5_Witness ==
  \E s \in Sessions, r \in Requests :
    /\ Received(s, r) /\ Fulfilled(sess[s].offer_fut, r)
    /\ answer_fut[r].state = "cancelled"
    /\ sess[s].error = "InvalidStateError"

\* C6: a session whose offer wait timed out has failed with the timeout
\* error, its slot is abandoned, and no request is ever paired with that slot
\* or answered 201 through it.
C6_TimedOutSlotNotClaimable ==
  \A s \in Sessions :
    sess[s].error = "TimeoutError" =>
      /\ sess[s].pc = "failed"
      /\ offer_fut[sess[s].offer_fut].state = "cancelled"
      /\ \A r \in Requests :
            /\ ~PairedWith(s, r)
            /\ req[r].offer_fut = sess[s].offer_fut =>
                  (req[r].stale /\ req[r].pc = "done" /\ \A i \in 1..Len(req[r].responses) :
                                      req[r].responses[i].code # 201)

\* A session timed out and a later POST on its device popped its slot.
C6_Witness ==
  \E s \in Sessions, r \in Requests :
    /\ sess[s].error = "TimeoutError"
    /\ req[r].pc = "done" /\ req[r].dev = sess[s].dev
    /\ req[r].offer_fut = sess[s].offer_fut

\* C7: when a host call raises, or the host's description is no answer, after
\* the offer was delivered, the session has failed with an error, the answer
\* future is not resolved, and the request that supplied the offer, once it
\* has answered, has answered 504.
C7_FailedExchangeGives504 ==
  \A s \in Sessions, r \in Requests :
    (/\ Received(s, r)
     /\ \/ sess[s].error = "HostError"
        \/ sess[s].scrypted_offer.type \notin {"", "answer"})
    => /\ sess[s].pc = "failed" /\ sess[s].error \in {"HostError", "Exception"}
       /\ answer_fut[r].state # "result"
       /\ req[r].pc \in {"waitAnswer", "done", "cancelled"}
       /\ req[r].pc = "done" => Sent(r, 504, "Timeout waiting for answer")

\* The host returned a description of type offer, the session failed, and the
\* request was answered 504.
C7_Witness ==
  \E s \in Sessions, r \in Requests :
    /\ Received(s, r) /\ sess[s].scrypted_offer.type = "offer"
    /\ sess[s].pc = "failed"
    /\ Sent(r, 504, "Timeout waiting for answer")

\* C8: a POST with a non-empty SDP that finds the queue empty is answered
\* 503 "No pending connection" and changes neither the queue nor any future;
\* its offer is never delivered to a session, also one started later.
C8_EmptyQueueGives503 ==
  /\ [](\A r \in Requests :
         (\E i \in 1..Len(req[r].responses) : req[r].responses[i].code = 503) =>
           /\ \A s \in Sessions : ~PairedWith(s, r)
           /\ \A f \in Futures : offer_fut[f].value.answer_fut # r)
  /\ [][\A r \in Requests :
          (/\ req[r].pc = "idle" /\ req'[r].pc # "idle"
           /\ PostedText(req'[r].body) # <<>>
           /\ pending_webrtc[req'[r].dev] = <<>>)
          => /\ req'[r].pc = "done"
             /\ req'[r].responses = <<[code |-> 503, body |-> "No pending connection"]>>
             /\ pending_webrtc' = pending_webrtc
             /\ offer_fut' = offer_fut
             /\ answer_fut' = answer_fut
             /\ sess' = sess]_vars

\* A request was answered 503 and a session started on its device afterwards
\* is waiting, its slot empty.
C8_Witness ==
  \E r \in Requests, s \in Sessions :
    /\ Sent(r, 503, "No pending connection") /\ req[r].sdp # <<>>
    /\ sess[s].dev = req[r].dev /\ sess[s].pc = "waitOffer"
    /\ offer_fut[sess[s].offer_fut].state = "pending"

\* C9: a request whose body is empty or the literal {} sends no response and
\* changes nothing but its own position: no slot is created, removed or
\* fulfilled, the queue and the sessions stay as they are.
C9_EmptyBodyIsNoop ==
  [][\A r \in Requests :
      (/\ req[r].pc = "idle" /\ req'[r].pc # "idle"
       /\ req'[r].body.kind \in {"empty", "{}"})
      => /\ req'[r].pc = "done"
         /\ req'[r].responses = <<>>
         /\ req'[r].offer_fut = None
         /\ pending_webrtc' = pending_webrtc
         /\ offer_fut' = offer_fut
         /\ answer_fut' = answer_fut
         /\ sess' = sess
         /\ devices' = devices]_vars

\* A request with the body {} has ended without a response while a session
\* waits on its device with a live slot.
C9_Witness ==
  \E r \in Requests, s \in Sessions :
    /\ req[r].pc = "done" /\ req[r].body.kind = "{}" /\ req[r].responses = <<>>
    /\ sess[s].dev = req[r].dev /\ sess[s].pc = "waitOffer"
    /\ pending_webrtc[req[r].dev] = <<sess[s].offer_fut>>

\* C10: a POST is paired with the slot of the earliest-started session whose
\* slot is live in the device's queue at that time; an abandoned slot is
\* never paired.  (Sessions are numbered in the order they start, and session
\* s constructs future s.)
LiveInQueue(d) ==
  {pending_webrtc[d][i] : i \in {j \in 1..Len(pending_webrtc[d]) :
                                   ~done(offer_fut[pending_webrtc[d][j]])}}

C10_FifoAmongLive ==
  [][\A f \in Futures :
      (offer_fut[f].state # "result" /\ offer_fut'[f].state = "result")
      => /\ offer_fut[f].state = "pending"
         /\ \E s \in Sessions, d \in Instances :
              /\ sess[s].pc # "idle" /\ sess[s].offer_fut = f /\ sess[s].dev = d
              /\ f \in LiveInQueue(d)
              /\ \A g \in LiveInQueue(d) : f <= g
              /\ \A i \in 1..Len(pending_webrtc'[d]) : pending_webrtc'[d][i] > f]_vars

\* The first session's slot was abandoned and a later POST was paired with
\* the second session's.
C10_Witness ==
  \E s, t \in Sessions, r \in Requests :
    /\ s < t /\ sess[s].dev = sess[t].dev /\ sess[t].pc # "idle"
    /\ sess[s].error = "TimeoutError"
    /\ Fulfilled(sess[t].offer_fut, r) /\ req[r].dev = sess[t].dev

\* A body that is no JSON, or whose data bytes are no UTF-8.
Malformed(body) == body.kind = "notjson" \/ body.data = <<255>>

\* C11 as stated: a malformed payload is answered 400.
C11_MalformedGives400 ==
  \A r \in Requests :
    (req[r].pc = "done" /\ Malformed(req[r].body)) =>
      \E i \in 1..Len(req[r].responses) : req[r].responses[i].code = 400

\* C11, amended: a malformed payload is answered 500 "Error processing
\* request" (400 is for the empty decoded SDP alone), and the request removes
\* no slot from the queue and changes no future.
C11_MalformedGives500 ==
  [][\A r \in Requests :
      (/\ req[r].pc = "idle" /\ req'[r].pc # "idle"
       /\ Malformed(req'[r].body))
      => /\ req'[r].pc = "done"
         /\ req'[r].responses = <<[code |-> 500, body |-> "Error processing request"]>>
         /\ pending_webrtc' = pending_webrtc
         /\ offer_fut' = offer_fut
         /\ answer_fut' = answer_fut]_vars

\* A request whose data is the byte 0xFF was answered while a session waits
\* in the queue of its device.
C11_Witness ==
  \E r \in Requests, s \in Sessions :
    /\ req[r].pc = "done" /\ req[r].body.data = <<255>> /\ req[r].responses # <<>>
    /\ sess[s].dev = req[r].dev /\ sess[s].pc = "waitOffer"
    /\ pending_webrtc[req[r].dev] = <<sess[s].offer_fut>>

\* C12: a POST whose data decodes to the empty string is answered 400 "No SDP
\* provided" whatever the queue holds; it removes and fulfils no slot, so a
\* waiting session stays live in the queue.
C12_EmptySdpGives400 ==
  [][\A r \in Requests :
      (/\ req[r].pc = "idle" /\ req'[r].pc # "idle"
       /\ req'[r].body = [kind |-> "data", data |-> <<>>])
      => /\ req'[r].pc = "done"
         /\ req'[r].responses = <<[code |-> 400, body |-> "No SDP provided"]>>
         /\ pending_webrtc' = pending_webrtc
         /\ offer_fut' = offer_fut
         /\ answer_fut' = answer_fut
         /\ sess' = sess]_vars

\* A request with empty data was answered 400 while a session waits, live, in
\* the queue of its device.
C12_Witness ==
  \E r \in Requests, s \in Sessions :
    /\ Sent(r, 400, "No SDP provided") /\ req[r].body.kind = "data"
    /\ sess[s].dev = req[r].dev /\ sess[s].pc = "waitOffer"
    /\ pending_webrtc[req[r].dev] = <<sess[s].offer_fut>>
    /\ offer_fut[sess[s].offer_fut].state = "pending"

\* C13: a session cancelled from outside while it waits for an offer leaves
\* its slot abandoned: every later drain skips the slot (no request's drain
\* ends on it), no request fulfils it, and the session is handed no offer.
C13_CancelledSlotSkipped ==
  \A s \in Sessions :
    (sess[s].error = "CancelledError" /\ sess[s].answer_fut = None) =>
      /\ offer_fut[sess[s].offer_fut].state = "cancelled"
      /\ \A r \in Requests :
            /\ ~PairedWith(s, r)
            /\ req[r].offer_fut # sess[s].offer_fut

\* C14: a step in which a session's exchange fails (after it received its
\* offer) changes neither a queue, nor an offer future, nor any other session,
\* nor any request; a session waiting with a live slot stays live and queued.
InExchange(s) == sess[s].pc \in {"hostSetRemote", "hostCreateLocal"}

C14_FailureLeavesOthers ==
  [][\A s \in Sessions :
      (InExchange(s) /\ sess'[s].pc = "failed")
      => /\ pending_webrtc' = pending_webrtc
         /\ offer_fut' = offer_fut
         /\ req' = req
         /\ answer_fut' = answer_fut
         /\ \A t \in Sessions \ {s} : sess'[t] = sess[t]
         /\ \A d \in Instances : LiveInQueue(d)' = LiveInQueue(d)]_vars

\* One session's exchange has failed while another session of the same device
\* waits, its slot live in the queue.
C14_Witness ==
  \E s, t \in Sessions :
    /\ s # t /\ sess[s].pc = "failed" /\ sess[s].answer_fut # None
    /\ sess[t].pc = "waitOffer" /\ sess[t].dev = sess[s].dev
    /\ sess[t].offer_fut \in LiveInQueue(sess[t].dev)

\* C15: a session moves WaitingForOffer (waitOffer), ExchangingDescriptions
\* (the host's setRemoteDescription with the camera's offer, then the host's
\* createLocalDescription), Complete, in that order; the answer future is
\* resolved only by a session whose host has returned its answer, with that
\* answer's sdp, in the step that completes the session; a completed session
\* has its answer future resolved; Failed is entered from the states before
\* Complete and, like Complete, is never left.
C15_SessionOrder ==
  /\ [](\A s \in Sessions :
         /\ sess[s].pc \in {"hostSetRemote", "hostCreateLocal", "complete"} =>
               /\ sess[s].answer_fut # None
               /\ sess[s].camera_offer = [sdp |-> sess[s].offer, type |-> "offer"]
         /\ sess[s].pc = "complete" =>
               /\ sess[s].scrypted_offer.type = "answer"
               /\ answer_fut[sess[s].answer_fut] =
                    [state |-> "result", value |-> sess[s].scrypted_offer.sdp])
  /\ [][/\ \A s \in Sessions :
            /\ sess[s].pc = "idle" => sess'[s].pc \in {"idle", "waitOffer"}
            /\ sess[s].pc = "waitOffer" =>
                  sess'[s].pc \in {"waitOffer", "hostSetRemote", "failed"}
            /\ sess[s].pc = "hostSetRemote" =>
                  sess'[s].pc \in {"hostSetRemote", "hostCreateLocal", "failed"}
            /\ sess[s].pc = "hostCreateLocal" =>
                  sess'[s].pc \in {"hostCreateLocal", "complete", "failed"}
            /\ sess[s].pc \in {"complete", "failed"} => sess'[s] = sess[s]
        /\ \A r \in Requests :
            (answer_fut[r].state # "result" /\ answer_fut'[r].state = "result") =>
              \E s \in Sessions :
                /\ sess[s].pc = "hostCreateLocal" /\ sess[s].answer_fut = r
                /\ sess'[s].pc = "complete"
                /\ sess'[s].scrypted_offer.type = "answer"
                /\ answer_fut'[r].value = sess'[s].scrypted_offer.sdp]_vars

\* One session failed while it waited for its offer and another went through
\* the exchange and completed.
C15_Witness ==
  \E s, t \in Sessions :
    /\ sess[s].pc = "failed" /\ sess[s].error = "TimeoutError"
    /\ sess[t].pc = "complete"
    /\ answer_fut[sess[t].answer_fut].state = "result"

\* C16: a future that leaves a queue was either done already (and is
\* discarded) or is fulfilled in that very step with the offer of the request
\* that popped it; one step removes at most one live future.
InQueue(d) == {pending_webrtc[d][i] : i \in 1..Len(pending_webrtc[d])}

C16_RemovedIsDeadOrFulfilled ==
  [][\A d \in Instances :
      /\ \A f \in InQueue(d) \ InQueue(d)' :
            \/ done(offer_fut[f]) /\ offer_fut'[f] = offer_fut[f]
            \/ \E r \in Requests :
                 /\ req[r].pc = "idle" /\ req'[r].pc = "waitAnswer"
                 /\ req'[r].dev = d /\ req'[r].offer_fut = f
                 /\ offer_fut'[f] =
                      [state |-> "result",
                       value |-> [offer |-> PostedText(req'[r].body), answer_fut |-> r]]
      /\ Cardinality(LiveInQueue(d) \ InQueue(d)') <= 1]_vars

\* A request popped an abandoned slot and a live one behind it, and fulfilled
\* the live one.
C16_Witness ==
  \E s, t \in Sessions, r \in Requests :
    /\ s # t /\ sess[s].pc = "failed" /\ sess[s].error \in {"TimeoutError", "CancelledError"}
    /\ sess[t].pc # "idle" /\ sess[t].dev = sess[s].dev /\ req[r].dev = sess[s].dev
    /\ Fulfilled(sess[t].offer_fut, r)
    /\ pending_webrtc[sess[s].dev] = <<>>
    /\ offer_fut[sess[s].offer_fut].state = "cancelled"

\* C17: a nativeId maps to at most one device, and two nativeIds never to the
\* same one; the device a nativeId maps to changes only by being released
\* (getDevice keeps returning it until then); a device is constructed new,
\* with an empty queue, when the nativeId maps to none; and a request is only
\* ever paired with a session of the device that handled it.
UsedDevices ==
  {devices[n] : n \in NativeIds} \cup {sess[s].dev : s \in Sessions}
    \cup {req[r].dev : r \in Requests}

C17_OneDevicePerNativeId ==
  /\ [](/\ \A n, m \in NativeIds :
            (n # m /\ devices[n] # None) => devices[n] # devices[m]
        /\ \A s \in Sessions, r \in Requests :
            /\ PairedWith(s, r) => sess[s].dev = req[r].dev
            /\ (sess[s].pc # "idle" /\ req[r].offer_fut = sess[s].offer_fut) =>
                  sess[s].dev = req[r].dev)
  /\ [][\A n \in NativeIds :
          /\ devices[n] # None => devices'[n] \in {devices[n], None}
          /\ (devices[n] = None /\ devices'[n] # None) =>
                /\ devices'[n] \notin UsedDevices
                /\ pending_webrtc'[devices'[n]] = <<>>]_vars

\* Two devices exist; a session waits on one with a live slot while a POST
\* with an offer, handled by the other, was answered 503.
C17_Witness ==
  \E s \in Sessions, r \in Requests, n, m \in NativeIds :
    /\ n # m /\ devices[n] # None /\ devices[m] # None
    /\ sess[s].pc = "waitOffer" /\ sess[s].dev = devices[n]
    /\ offer_fut[sess[s].offer_fut].state = "pending"
    /\ req[r].dev = devices[m] /\ req[r].sdp # <<>>
    /\ Sent(r, 503, "No pending connection")

\* C18: for a request and the session that received its offer: the request
\* has answered 201 only if the session completed, with the sdp of that
\* session's answer; a completed session's request is waiting or has answered
\* 201 (never 504 or 500, and it was not cancelled); and every 201 comes from
\* a completed session.
Has201(r) == \E i \in 1..Len(req[r].responses) : req[r].responses[i].code = 201

C18_201IffComplete ==
  /\ \A s \in Sessions, r \in Requests :
        Received(s, r) =>
          /\ Has201(r) => sess[s].pc = "complete"
          /\ sess[s].pc = "failed" => ~Has201(r)
          /\ sess[s].pc = "complete" =>
                /\ req[r].pc \in {"waitAnswer", "done"}
                /\ req[r].pc = "done" => Sent(r, 201, sess[s].scrypted_offer.sdp)
  /\ \A r \in Requests :
        Has201(r) => \E s \in Sessions : Received(s, r) /\ sess[s].pc = "complete"

\* A session completed and the request it was paired with has answered 201.
C18_Witness ==
  \E s \in Sessions, r \in Requests :
    /\ Received(s, r) /\ sess[s].pc = "complete"
    /\ req[r].pc = "done" /\ Has201(r)

\* C19: a request whose body is neither empty nor {} never sends more than
\* one response; once it has ended without being cancelled it has sent exactly
\* one, with a code among 201, 400, 503, 504, 500; and a request that waits
\* for its answer eventually ends, whatever its session does.
ResponseCodes == {201, 400, 503, 504, 500}

C19_ExactlyOneResponse ==
  /\ [](\A r \in Requests :
         /\ Len(req[r].responses) <= 1
         /\ \A i \in 1..Len(req[r].responses) : req[r].responses[i].code \in ResponseCodes
         /\ (req[r].pc = "done" /\ req[r].body.kind \notin {"empty", "{}"}) =>
               Len(req[r].responses) = 1
         /\ req[r].pc \in {"idle", "waitAnswer", "cancelled"} => req[r].responses = <<>>)
  /\ \A r \in Requests :
        (req[r].pc = "waitAnswer") ~> (req[r].pc \in {"done", "cancelled"})

\* A request has answered 504 after the session it was paired with failed in
\* its exchange.
C19_Witness ==
  \E s \in Sessions, r \in Requests :
    /\ Received(s, r) /\ sess[s].pc = "failed" /\ sess[s].error = "HostError"
    /\ Sent(r, 504, "Timeout waiting for answer")

\* C20: every session that has started eventually ends, complete or failed,
\* whether or not a POST arrives.
C20_SessionTerminates ==
  \A s \in Sessions :
    (sess[s].pc \in {"waitOffer", "hostSetRemote", "hostCreateLocal"})
      ~> (sess[s].pc \in {"complete", "failed"})

\* A session has failed on its offer timeout on a device that handled no
\* request at all.
C20_Witness ==
  \E s \in Sessions :
    /\ sess[s].pc = "failed" /\ sess[s].error = "TimeoutError"
    /\ \A r \in Requests : req[r].pc = "idle"

====
